---- MODULE Spec2Model ----
(***************************************************************************)
(* Model of the filter/pagination composable useFilter (src/src/useFilter.ts)*)
(* with its helpers useUtils, useEncoder, useResponse and useSigner.        *)
(*                                                                         *)
(* JavaScript values are tagged records; JavaScript strings are sequences   *)
(* of one-character strings so that formatting, splitting, joining and      *)
(* lexicographic sorting are computed and not assumed.                      *)
(***************************************************************************)
EXTENDS Integers, Sequences, FiniteSets, TLC

\* ------------------------------------------------------------------------
\* JavaScript values
\* ------------------------------------------------------------------------
Undefined == [t |-> "undefined"]
Null == [t |-> "null"]
NaN == [t |-> "NaN"]
Num(n) == [t |-> "number", v |-> n]
Bool(b) == [t |-> "boolean", v |-> b]
Str(s) == [t |-> "string", v |-> s]
Arr(a) == [t |-> "array", v |-> a]
\* an object is the sequence of its entries, in insertion order
Obj(es) == [t |-> "object", v |-> es]
Entry(key, val) == [k |-> key, v |-> val]

\* ------------------------------------------------------------------------
\* Strings as sequences of characters
\* ------------------------------------------------------------------------
\* the characters used, in increasing UTF-16 code unit order
CharOrder ==
    << " ", "%", "&", "+", ",", "-", ".",
       "0", "1", "2", "3", "4", "5", "6", "7", "8", "9",
       ":", "=", "A", "B", "C", "D", "N", "O", "[", "]",
       "a", "b", "c", "d", "e", "f", "g", "h", "i", "j", "k", "l", "m",
       "n", "o", "p", "r", "s", "t", "u", "v", "x", "y", "|" >>

Code(c) == CHOOSE i \in 1..Len(CharOrder) : CharOrder[i] = c

Digits == <<"0", "1", "2", "3", "4", "5", "6", "7", "8", "9">>

IsDigit(c) == \E i \in 1..10 : Digits[i] = c

DigitVal(c) == (CHOOSE i \in 1..10 : Digits[i] = c) - 1

\* a < b in the order of Array.prototype.sort() without a comparator
RECURSIVE StrLess(_, _)
StrLess(a, b) ==
    IF a = <<>> THEN b # <<>>
    ELSE IF b = <<>> THEN FALSE
    ELSE IF Head(a) = Head(b) THEN StrLess(Tail(a), Tail(b))
    ELSE Code(Head(a)) < Code(Head(b))

RECURSIVE InsertSorted(_, _)
InsertSorted(x, sorted) ==
    IF sorted = <<>> THEN <<x>>
    ELSE IF StrLess(x, Head(sorted)) THEN <<x>> \o sorted
    ELSE <<Head(sorted)>> \o InsertSorted(x, Tail(sorted))

RECURSIVE SortStrings(_)
SortStrings(ss) ==
    IF ss = <<>> THEN <<>>
    ELSE InsertSorted(Head(ss), SortStrings(Tail(ss)))

RECURSIVE Join(_, _)
Join(ss, sep) ==
    IF ss = <<>> THEN <<>>
    ELSE IF Len(ss) = 1 THEN ss[1]
    ELSE ss[1] \o sep \o Join(Tail(ss), sep)

Includes(s, c) == \E i \in 1..Len(s) : s[i] = c

\* String.prototype.split(sep) for a one-character separator
RECURSIVE SplitFrom(_, _, _)
SplitFrom(s, sep, cur) ==
    IF s = <<>> THEN <<cur>>
    ELSE IF Head(s) = sep THEN <<cur>> \o SplitFrom(Tail(s), sep, <<>>)
    ELSE SplitFrom(Tail(s), sep, Append(cur, Head(s)))

Split(s, sep) == SplitFrom(s, sep, <<>>)

RECURSIVE TrimLeft(_)
TrimLeft(s) ==
    IF s # <<>> /\ Head(s) = " " THEN TrimLeft(Tail(s)) ELSE s

RECURSIVE TrimRight(_)
TrimRight(s) ==
    IF s # <<>> /\ s[Len(s)] = " " THEN TrimRight(SubSeq(s, 1, Len(s) - 1))
    ELSE s

Trim(s) == TrimRight(TrimLeft(s))

\* Number.prototype.toString() / String(n) of an integer
RECURSIVE NatToString(_)
NatToString(n) ==
    IF n < 10 THEN <<Digits[n + 1]>>
    ELSE NatToString(n \div 10) \o <<Digits[(n % 10) + 1]>>

NumberToString(n) ==
    IF n < 0 THEN <<"-">> \o NatToString(0 - n) ELSE NatToString(n)

RECURSIVE DigitsToNat(_, _)
DigitsToNat(s, acc) ==
    IF s = <<>> THEN acc
    ELSE DigitsToNat(Tail(s), acc * 10 + DigitVal(Head(s)))

AllDigits(s) == s # <<>> /\ \A i \in 1..Len(s) : IsDigit(s[i])

\* a decimal integer literal, optionally signed
IsIntegerString(s) ==
    \/ AllDigits(s)
    \/ Len(s) > 1 /\ s[1] = "-" /\ AllDigits(Tail(s))

StringToNumber(s) ==
    IF s[1] = "-" THEN 0 - DigitsToNat(Tail(s), 0) ELSE DigitsToNat(s, 0)

\* ------------------------------------------------------------------------
\* Type predicates and conversions (@termeh-v/utils, imported by useFilter)
\* ------------------------------------------------------------------------
isArray(v) == v.t = "array"

isObject(v) == v.t = "object"

isString(v) == v.t = "string"

isNumber(v) == v.t = "number"

\* a finite number, or a string holding a number
isNumeric(v) ==
    \/ v.t = "number"
    \/ v.t = "string" /\ IsIntegerString(v.v)

\* Number(v) for a value accepted by isNumeric
Number(v) == IF v.t = "number" THEN v.v ELSE StringToNumber(v.v)

\* String(v)
RECURSIVE String(_)
RECURSIVE JoinValues(_)
JoinValues(a) ==
    IF a = <<>> THEN <<>>
    ELSE LET h == IF Head(a).t \in {"null", "undefined"} THEN <<>>
                  ELSE String(Head(a))
         IN IF Len(a) = 1 THEN h ELSE h \o <<",">> \o JoinValues(Tail(a))

String(v) ==
    CASE v.t = "string" -> v.v
      [] v.t = "number" -> NumberToString(v.v)
      [] v.t = "boolean" ->
            IF v.v THEN <<"t", "r", "u", "e">> ELSE <<"f", "a", "l", "s", "e">>
      [] v.t = "NaN" -> <<"N", "a", "N">>
      [] v.t = "null" -> <<"n", "u", "l", "l">>
      [] v.t = "undefined" ->
            <<"u", "n", "d", "e", "f", "i", "n", "e", "d">>
      [] v.t = "array" -> JoinValues(v.v)
      [] v.t = "object" ->
            <<"[", "o", "b", "j", "e", "c", "t", " ", "O", "b", "j", "e", "c",
              "t", "]">>

\* property names
kPage == <<"p", "a", "g", "e">>
kLimit == <<"l", "i", "m", "i", "t">>
kSearch == <<"s", "e", "a", "r", "c", "h">>
kSorts == <<"s", "o", "r", "t", "s">>
kSort == <<"s", "o", "r", "t">>
kFilters == <<"f", "i", "l", "t", "e", "r", "s">>
kField == <<"f", "i", "e", "l", "d">>
kOrder == <<"o", "r", "d", "e", "r">>
asc == <<"a", "s", "c">>
desc == <<"d", "e", "s", "c">>

HasKey(es, key) == \E i \in 1..Len(es) : es[i].k = key

\* o[key] of an object with entries es
Get(es, key) ==
    IF HasKey(es, key)
    THEN es[CHOOSE i \in 1..Len(es) : es[i].k = key].v
    ELSE Undefined

\* o[key] = val
Put(es, key, val) ==
    IF HasKey(es, key)
    THEN [i \in 1..Len(es) |->
            IF es[i].k = key THEN Entry(key, val) ELSE es[i]]
    ELSE Append(es, Entry(key, val))

\* {...a, ...b}
RECURSIVE Spread(_, _)
Spread(a, b) ==
    IF b = <<>> THEN a
    ELSE Spread(Put(a, Head(b).k, Head(b).v), Tail(b))

\* ------------------------------------------------------------------------
\* useUtils
\* ------------------------------------------------------------------------
\* an isOrderType that accepts every string
isOrderTypeAny(v) == v.t = "string"

isOrderType(v) == v.t = "string" /\ v.v \in {asc, desc}

\* "all" or an array of option names; options is what the caller passed
isValidOption(key, options) ==
    \/ isArray(options) /\ \E i \in 1..Len(options.v) : options.v[i] = Str(key)
    \/ options = Str(<<"a", "l", "l">>)

IsZero(v) ==
    \/ v = Undefined
    \/ isArray(v) /\ Len(v.v) = 0
    \/ isObject(v) /\ Len(v.v) = 0

RECURSIVE DropZeroEntries(_)
DropZeroEntries(es) ==
    IF es = <<>> THEN <<>>
    ELSE IF IsZero(Head(es).v) THEN DropZeroEntries(Tail(es))
    ELSE <<Head(es)>> \o DropZeroEntries(Tail(es))

\* the entries of removeZero(v)
removeZero(v) == IF isObject(v) THEN DropZeroEntries(v.v) ELSE <<>>

safe(v, check, mapped, fallback) == IF check THEN mapped ELSE fallback

stringSafe(v, fallback) ==
    safe(v, isString(v) /\ v.v # <<>>, v, fallback)

positiveSafe(v, fallback) ==
    safe(v, isNumeric(v) /\ Number(v) > 0, Num(Number(v)), fallback)

arraySafe(v, fallback) ==
    safe(v, isArray(v) /\ Len(v.v) > 0, v, fallback)

objectSafe(v, fallback) == safe(v, isObject(v), v, fallback)

\* ------------------------------------------------------------------------
\* useSigner
\* ------------------------------------------------------------------------
signerEncodeValue(v) ==
    IF v = Null THEN <<"[", "n", "u", "l", "l", "]">>
    ELSE IF v = Undefined
         THEN <<"[", "u", "n", "d", "e", "f", "i", "n", "e", "d", "]">>
    ELSE String(v)

\* Object.entries of an object or of an array (index keys)
ObjectEntries(v) ==
    IF isObject(v) THEN v.v
    ELSE [i \in 1..Len(v.v) |-> Entry(NatToString(i - 1), v.v[i])]

RECURSIVE flatten(_, _)
RECURSIVE flattenEntries(_, _)
RECURSIVE flattenElements(_, _)
\* the loop over the elements of an array value found under key
flattenElements(els, key) ==
    IF els = <<>> THEN <<>>
    ELSE flatten(Head(els), key) \o flattenElements(Tail(els), key)

\* the loop over Object.entries(obj), before the final sort
flattenEntries(es, prefix) ==
    IF es = <<>> THEN <<>>
    ELSE LET key == IF prefix # <<>> THEN prefix \o <<".">> \o Head(es).k
                    ELSE Head(es).k
             val == Head(es).v
             part == IF isObject(val) THEN flatten(val, key)
                     ELSE IF isArray(val) THEN flattenElements(val.v, key)
                     ELSE <<key \o <<":">> \o signerEncodeValue(val)>>
         IN part \o flattenEntries(Tail(es), prefix)

flatten(obj, prefix) ==
    IF ~isObject(obj) /\ ~isArray(obj)
    THEN << (IF prefix # <<>> THEN prefix ELSE <<"v", "a", "l", "u", "e">>)
            \o <<":">> \o signerEncodeValue(obj) >>
    ELSE SortStrings(flattenEntries(ObjectEntries(obj), prefix))

\* SHA-256 rendered as hex, as an injective function of the digested string
Digest(str) == <<"sha256", str>>

\* a sign that leaves the flattened strings of the top level unsorted
signInOrder(data) ==
    Digest(Join(flattenEntries(ObjectEntries(data), <<>>), <<"|">>))

sign(data) == Digest(Join(flatten(data, <<>>), <<"|">>))

\* a validate that never finds the signature unchanged
validateNever(data, signature) == FALSE

\* a validate that compares with the initial, empty signature
validateInitial(data, signature) == sign(data) = <<>>

validate(data, signature) == sign(data) = signature

\* ------------------------------------------------------------------------
\* useEncoder
\* ------------------------------------------------------------------------
\* characters that encodeURIComponent escapes, with their escapes
Escapes ==
    << <<" ", <<"%", "2", "0">> >>, <<"%", <<"%", "2", "5">> >>,
       <<"&", <<"%", "2", "6">> >>, <<"+", <<"%", "2", "B">> >>,
       <<",", <<"%", "2", "C">> >>, <<":", <<"%", "3", "A">> >>,
       <<"=", <<"%", "3", "D">> >>, <<"[", <<"%", "5", "B">> >>,
       <<"]", <<"%", "5", "D">> >>, <<"|", <<"%", "7", "C">> >> >>

IsEscaped(c) == \E i \in 1..Len(Escapes) : Escapes[i][1] = c

EscapeOf(c) == Escapes[CHOOSE i \in 1..Len(Escapes) : Escapes[i][1] = c][2]

IsEscape(e) == \E i \in 1..Len(Escapes) : Escapes[i][2] = e

UnescapeOf(e) == Escapes[CHOOSE i \in 1..Len(Escapes) : Escapes[i][2] = e][1]

RECURSIVE encodeURIComponent(_)
encodeURIComponent(s) ==
    IF s = <<>> THEN <<>>
    ELSE (IF IsEscaped(Head(s)) THEN EscapeOf(Head(s)) ELSE <<Head(s)>>)
         \o encodeURIComponent(Tail(s))

\* defined for strings whose every "%" starts an escape of Escapes
RECURSIVE decodeURIComponent(_)
decodeURIComponent(s) ==
    IF s = <<>> THEN <<>>
    ELSE IF Head(s) = "%" /\ Len(s) >= 3 /\ IsEscape(SubSeq(s, 1, 3))
    THEN <<UnescapeOf(SubSeq(s, 1, 3))>>
         \o decodeURIComponent(SubSeq(s, 4, Len(s)))
    ELSE <<Head(s)>> \o decodeURIComponent(Tail(s))

encodeValue(v) ==
    IF v \in {Null, Undefined}
    THEN encodeURIComponent(<<"[", "n", "u", "l", "l", "]">>)
    ELSE encodeURIComponent(String(v))

decodeValue(s) == decodeURIComponent(s)

RECURSIVE encodeSortPairs(_)
encodeSortPairs(sorts) ==
    IF sorts = <<>> THEN <<>>
    ELSE << encodeValue(Get(Head(sorts).v, kField)) \o <<":">>
            \o encodeValue(Get(Head(sorts).v, kOrder)) >>
         \o encodeSortPairs(Tail(sorts))

\* sorts is the sequence of the array's elements
encodeSorts(sorts) == Join(encodeSortPairs(sorts), <<",">>)

Sort(f, o) == Obj(<<Entry(kField, Str(f)), Entry(kOrder, Str(o))>>)

\* one "field:order" item of decodeSorts: the Sort, or Undefined
decodeSortItem(i) ==
    LET parts == Split(i, ":")
        field == parts[1]
        order == parts[2]
    IN IF Trim(field) = <<>> \/ order = <<>> THEN Undefined
       ELSE LET f == decodeValue(Trim(field))
                o == decodeValue(order)
            IN IF f # <<>> /\ isOrderType(Str(o)) THEN Sort(f, o)
               ELSE Undefined

RECURSIVE decodeSortItems(_)
decodeSortItems(items) ==
    IF items = <<>> THEN <<>>
    ELSE LET i == Head(items)
             rest == decodeSortItems(Tail(items))
         IN IF i # <<>> /\ Includes(i, ":")
            THEN (IF decodeSortItem(i) # Undefined
                  THEN <<decodeSortItem(i)>> ELSE <<>>) \o rest
            ELSE rest

\* the elements of the decoded array
decodeSorts(encoded) == decodeSortItems(Split(encoded, ","))

\* inferType(value)
inferType(value) ==
    LET val == decodeValue(value)
    IN IF val = <<"t", "r", "u", "e">> THEN Bool(TRUE)
       ELSE IF val = <<"f", "a", "l", "s", "e">> THEN Bool(FALSE)
       ELSE IF val = <<"[", "n", "u", "l", "l", "]">> THEN Null
       ELSE IF isNumeric(Str(val)) THEN Num(Number(Str(val)))
       ELSE Str(val)

\* the elements of decodeArray(encoded)
decodeArray(encoded) ==
    LET parts == Split(encoded, ",")
    IN [i \in 1..Len(parts) |-> inferType(parts[i])]

RECURSIVE decodeObjectParts(_, _)
decodeObjectParts(parts, obj) ==
    IF parts = <<>> THEN obj
    ELSE LET kv == Split(Head(parts), ":")
             k == Trim(kv[1])
         IN IF k # <<>> /\ Len(kv) >= 2 /\ kv[2] # <<>>
            THEN decodeObjectParts(Tail(parts),
                                   Put(obj, decodeValue(k), inferType(kv[2])))
            ELSE decodeObjectParts(Tail(parts), obj)

\* the entries of decodeObject(encoded)
decodeObject(encoded) == decodeObjectParts(Split(encoded, ","), <<>>)

\* new URLSearchParams(query): the name/value pairs of the query string
RECURSIVE PlusToSpace(_)
PlusToSpace(s) ==
    IF s = <<>> THEN <<>>
    ELSE <<IF Head(s) = "+" THEN " " ELSE Head(s)>> \o PlusToSpace(Tail(s))

RECURSIVE IndexOf(_, _, _)
IndexOf(s, c, i) ==
    IF i > Len(s) THEN 0 ELSE IF s[i] = c THEN i ELSE IndexOf(s, c, i + 1)

ParsePair(part) ==
    LET eq == IndexOf(part, "=", 1)
        name == IF eq = 0 THEN part ELSE SubSeq(part, 1, eq - 1)
        val == IF eq = 0 THEN <<>> ELSE SubSeq(part, eq + 1, Len(part))
    IN Entry(decodeURIComponent(PlusToSpace(name)),
             decodeURIComponent(PlusToSpace(val)))

RECURSIVE ParsePairs(_)
ParsePairs(parts) ==
    IF parts = <<>> THEN <<>>
    ELSE IF Head(parts) = <<>> THEN ParsePairs(Tail(parts))
    ELSE <<ParsePair(Head(parts))>> \o ParsePairs(Tail(parts))

URLSearchParams(query) == ParsePairs(Split(query, "&"))

\* params.get(name): the first value of that name, as a string, or Null
ParamsGet(pairs, name) ==
    IF HasKey(pairs, name)
    THEN Str(pairs[CHOOSE i \in 1..Len(pairs) :
                    /\ pairs[i].k = name
                    /\ \A j \in 1..(i - 1) : pairs[j].k # name].v)
    ELSE Null

\* the loop of decode over params.entries()
RECURSIVE decodeFilters(_, _)
decodeFilters(pairs, filters) ==
    IF pairs = <<>> THEN filters
    ELSE LET key == Head(pairs).k
             value == Head(pairs).v
             filter == Trim(decodeValue(key))
         IN IF key \in {kPage, kLimit, kSearch, kSorts} \/ filter = <<>>
            THEN decodeFilters(Tail(pairs), filters)
            ELSE decodeFilters(Tail(pairs),
                    Put(filters, filter,
                        IF Includes(value, ",") /\ ~Includes(value, ":")
                        THEN Arr(decodeArray(value))
                        ELSE IF Includes(value, ":")
                        THEN Obj(decodeObject(value))
                        ELSE inferType(value)))

\* decode(query): the Filters object, as a record
decode(query) ==
    LET pairs == URLSearchParams(query)
        get(name) == ParamsGet(pairs, name)
    IN [ page |-> IF HasKey(pairs, kPage)
                     /\ positiveSafe(get(kPage), Num(0)).v > 0
                  THEN Num(Number(get(kPage))) ELSE Num(0),
         limit |-> IF HasKey(pairs, kLimit)
                      /\ positiveSafe(get(kLimit), Num(0)).v > 0
                   THEN Num(Number(get(kLimit))) ELSE Num(0),
         search |-> IF HasKey(pairs, kSearch) THEN get(kSearch)
                    ELSE Str(<<>>),
         sorts |-> IF HasKey(pairs, kSorts)
                   THEN Arr(decodeSorts(Trim(get(kSorts).v)))
                   ELSE Arr(<<>>),
         filters |-> Obj(decodeFilters(pairs, <<>>)) ]

\* the strings of value.map(encodeValue)
encodeValues(els) == [i \in 1..Len(els) |-> encodeValue(els[i])]

\* els is the sequence of the array's elements
encodeArray(els) == Join(encodeValues(els), <<",">>)

\* es is the sequence of the object's entries
encodeObject(es) ==
    Join([i \in 1..Len(es) |->
             encodeValue(Str(es[i].k)) \o <<":">> \o encodeValue(es[i].v)],
         <<",">>)

\* the application/x-www-form-urlencoded serialisation of one name or value
RECURSIVE FormEncode(_)
FormEncode(str) ==
    IF str = <<>> THEN <<>>
    ELSE (IF Head(str) = " " THEN <<"+">>
          ELSE IF IsEscaped(Head(str)) THEN EscapeOf(Head(str))
          ELSE <<Head(str)>>)
         \o FormEncode(Tail(str))

\* params.toString()
ParamsToString(pairs) ==
    Join([i \in 1..Len(pairs) |->
             FormEncode(pairs[i].k) \o <<"=">> \o FormEncode(pairs[i].v)],
         <<"&">>)

\* the loop of encode over Object.entries(state.filters)
RECURSIVE encodeFilters(_, _)
encodeFilters(es, pairs) ==
    IF es = <<>> THEN pairs
    ELSE LET val == Head(es).v
         IN encodeFilters(Tail(es),
                Put(pairs, Head(es).k,
                    IF isArray(val) THEN encodeArray(val.v)
                    ELSE IF isObject(val) THEN encodeObject(val.v)
                    ELSE encodeValue(val)))

\* encode(state): the query string
encode(state) ==
    LET p1 == IF isNumber(state.page) /\ state.page.v > 0
              THEN Put(<<>>, kPage, String(state.page)) ELSE <<>>
        p2 == IF isNumber(state.limit) /\ state.limit.v > 0
              THEN Put(p1, kLimit, String(state.limit)) ELSE p1
        p3 == IF isString(state.search) /\ state.search.v # <<>>
              THEN Put(p2, kSearch, state.search.v) ELSE p2
        p4 == IF isArray(state.sorts) /\ Len(state.sorts.v) > 0
              THEN Put(p3, kSorts, encodeSorts(state.sorts.v)) ELSE p3
    IN ParamsToString(IF isObject(state.filters)
                      THEN encodeFilters(state.filters.v, p4) ELSE p4)

\* ------------------------------------------------------------------------
\* useResponse
\* ------------------------------------------------------------------------
\* the reactive response object after parse(r), as its entries
\* a parse that keeps the accumulated fields when r is not an object
parseMergeKeep(resp, r) == IF isObject(r) THEN Spread(resp, r.v) ELSE resp

\* a parse that keeps the fields of the last response only
parseMergeLast(resp, r) == IF isObject(r) THEN r.v ELSE <<>>

parseMerge(resp, r) == IF isObject(r) THEN Spread(resp, r.v) ELSE <<>>

\* what parse(r) returns, given the response object after the merge
parseResult(resp, r) ==
    IF isObject(r)
    THEN LET out == removeZero(Obj(<<
                 Entry(kPage, positiveSafe(Get(resp, kPage), Undefined)),
                 Entry(kLimit, positiveSafe(Get(resp, kLimit), Undefined)),
                 Entry(kSearch, stringSafe(Get(resp, kSearch), Undefined)),
                 Entry(kSorts, arraySafe(Get(resp, kSorts), Undefined)),
                 Entry(kFilters, objectSafe(Get(resp, kFilters), Undefined))
                 >>))
         IN [ page |-> Get(out, kPage), limit |-> Get(out, kLimit),
              search |-> Get(out, kSearch), sorts |-> Get(out, kSorts),
              filters |-> Get(out, kFilters) ]
    ELSE [ page |-> Undefined, limit |-> Undefined, search |-> Undefined,
           sorts |-> Undefined, filters |-> Undefined ]

\* ------------------------------------------------------------------------
\* useStorage(localStorage, storagePrefix): the entries <prefix>.limit and
\* <prefix>.sorts; an entry is Undefined (no such key) or a string
\* ------------------------------------------------------------------------
storageString(store, key) == store[key]

\* the stored string as a number, Undefined when it holds none
storageNumber(store, key) ==
    IF isString(store[key]) /\ isNumeric(store[key])
    THEN Num(Number(store[key]))
    ELSE Undefined

storageSet(store, key, val) == [store EXCEPT ![key] = Str(val)]

\* ------------------------------------------------------------------------
\* useFilter: state
\* ------------------------------------------------------------------------
VARIABLES
    stats,      \* the reactive record: sign, locked, callback, page, limit,
                \* search, sorts (array elements), filters (object entries)
    options,    \* the merged options (storables is read by apply) and the
                \* storables the caller passed
    storage,    \* localStorage under storagePrefix
    response,   \* the entries of the response parser's reactive object
    pc,         \* where the apply in progress is: idle, validate, sign
    params,     \* the local params of the apply in progress
    active,     \* number of apply bodies between lock and finally
    event,      \* what the last step was
    arg,        \* the partial passed to the last apply that was not dropped
    changed,    \* the fields of stats that apply assigned a new value to
    cbCount,    \* callback invocations made by the last apply
    cbArgs,     \* the params of that invocation
    wrote,      \* storage keys written by the last apply
    logging,    \* whether cbLog is kept
    cbLog       \* signatures of the params of all callback invocations

filterVars ==
    << stats, options, storage, response, pc, params, active, event, arg,
       changed, cbCount, cbArgs, wrote, logging, cbLog >>

\* a direct call of one of the helpers (useEncoder, useSigner, useResponse)
VARIABLES
    fn,         \* the helper function called last
    input,      \* its argument
    output      \* what it returned

helperVars == << fn, input, output >>

\* no helper has been called
NoCall ==
    /\ fn = "none"
    /\ input = Undefined
    /\ output = Undefined

\* useCountdown (src/unnamed/part_001)
VARIABLES
    hours,      \* h.value
    minutes,    \* m.value
    seconds,    \* s.value
    interval,   \* the id held by the local variable interval, 0 for null
    timers,     \* the ids of the intervals set and not cleared
    paused,     \* pauseTimer was the last control call
    started     \* startTimer was the last control call that took effect

countdownVars ==
    << hours, minutes, seconds, interval, timers, paused, started >>

\* the state right after useCountdown()
CountdownCreated ==
    /\ hours = 0
    /\ minutes = 0
    /\ seconds = 0
    /\ interval = 0
    /\ timers = {}
    /\ paused = FALSE
    /\ started = FALSE

\* useTimer (src/src/useTimer.ts)
VARIABLES
    timerHours,     \* hours.value
    timerMinutes,   \* minutes.value
    timerSeconds,   \* seconds.value
    timerInterval,  \* the id held by the local variable interval, 0 for null
    endTime,        \* the local variable endTime in ms, 0 for null
    dateNow,        \* Date.now() in ms
    intervals,      \* the ids of the intervals set and not cleared
    timerCall,      \* the last step of the timer
    timerArg        \* the arguments of the last startTimer

timerVars == << timerHours, timerMinutes, timerSeconds, timerInterval,
                endTime, dateNow, intervals, timerCall, timerArg >>

ClockStart == 1000

\* the state right after useTimer()
TimerCreated ==
    /\ timerHours = 0
    /\ timerMinutes = 0
    /\ timerSeconds = 0
    /\ timerInterval = 0
    /\ endTime = 0
    /\ dateNow = ClockStart
    /\ intervals = {}
    /\ timerCall = "none"
    /\ timerArg = Undefined

\* useInputMask (src/unnamed/part_000)
VARIABLES
    inputRef,   \* inputRef.value: 1 for the element, 0 for null
    instance,   \* the id of the handle held by instance, 0 for null
    maskitos,   \* the ids of the Maskito instances created and not destroyed
    destroys,   \* how often destroy() of each Maskito instance was called
    created,    \* the number of Maskito instances created
    phase       \* the component: "setup", "mounted" or "unmounted"

maskVars == << inputRef, instance, maskitos, destroys, created, phase >>

MaxInstances == 8

\* the state right after useInputMask(inputRef, option), in setup
MaskCreated ==
    /\ inputRef = 0
    /\ instance = 0
    /\ maskitos = {}
    /\ destroys = [i \in 1..MaxInstances |-> 0]
    /\ created = 0
    /\ phase = "setup"

vars == << filterVars, helperVars, countdownVars, timerVars, maskVars >>

\* what the operations of useFilter leave alone
outside == << helperVars, countdownVars, timerVars, maskVars >>

all == <<"a", "l", "l">>

\* {page, limit, search, sorts, filters} of stats, as apply builds params
Projection(st) ==
    Obj(<< Entry(kPage, Num(st.page)), Entry(kLimit, Num(st.limit)),
           Entry(kSearch, Str(st.search)), Entry(kSorts, Arr(st.sorts)),
           Entry(kFilters, Obj(st.filters)) >>)

\* ------------------------------------------------------------------------
\* useFilter: construction
\* ------------------------------------------------------------------------
\* options.storables after the merge with the "all" default
mergedStorables(storables) ==
    Get(Spread(<<Entry(<<"s">>, Str(all))>>,
               removeZero(Obj(<<Entry(<<"s">>, storables)>>))), <<"s">>)

\* the options record: storables as merged, passed as the caller gave it
mergedOptions(storables) ==
    [storables |-> mergedStorables(storables), passed |-> storables]

\* options.defaults after the merge: built-in values, then the caller's
\* defaults, then the persisted values (storables is the caller's value)
mergedDefaults(storables, defaults, store) ==
    Spread(
        Spread(<< Entry(kPage, Num(1)), Entry(kLimit, Num(20)),
                  Entry(kSearch, Str(<<>>)), Entry(kSorts, Arr(<<>>)),
                  Entry(kFilters, Obj(<<>>)) >>,
               removeZero(defaults)),
        removeZero(Obj(<<
            Entry(kLimit,
                  IF isValidOption(kLimit, storables)
                  THEN storageNumber(store, "limit") ELSE Undefined),
            Entry(kSort,
                  IF isValidOption(kSorts, storables)
                  THEN Arr(decodeSorts(
                          IF isString(storageString(store, "sorts"))
                          THEN storageString(store, "sorts").v ELSE <<>>))
                  ELSE Undefined) >>)))

\* the reactive record created by useFilter(storagePrefix, options)
initialStats(storables, defaults, store) ==
    LET d == mergedDefaults(storables, defaults, store)
    IN [ sign |-> <<>>,
         locked |-> FALSE,
         callback |-> FALSE,
         page |-> positiveSafe(Get(d, kPage), Num(0)).v,
         limit |-> positiveSafe(Get(d, kLimit), Num(0)).v,
         search |-> stringSafe(Get(d, kSearch), Str(<<>>)).v,
         sorts |-> arraySafe(Get(d, kSorts), Arr(<<>>)).v,
         filters |-> objectSafe(Get(d, kFilters), Obj(<<>>)).v ]

\* ------------------------------------------------------------------------
\* useFilter: apply
\* ------------------------------------------------------------------------
\* apply({})
NoPartial ==
    [page |-> Undefined, limit |-> Undefined, search |-> Undefined,
     sorts |-> Undefined, filters |-> Undefined]

\* an apply that never finds the lock held
neverLocked(st) == FALSE

\* line 139: the reentrancy test
isLocked(st) == st.locked

\* lines 142-150: each field of the partial replaces the state's or not
applyPage(st, p) ==
    IF positiveSafe(p.page, Num(0)).v > 0 THEN Number(p.page) ELSE st.page

applyLimit(st, p) ==
    IF positiveSafe(p.limit, Num(0)).v > 0 THEN Number(p.limit) ELSE st.limit

\* an apply that lets an empty string replace the search text
applySearchAny(st, p) == IF isString(p.search) THEN p.search.v ELSE st.search

applySearch(st, p) ==
    IF isString(p.search) /\ p.search.v # <<>> THEN p.search.v ELSE st.search

applySorts(st, p) == IF isArray(p.sorts) THEN p.sorts.v ELSE st.sorts

applyFilters(st, p) ==
    IF isObject(p.filters) THEN removeZero(p.filters) ELSE st.filters

\* stats after the synchronous part of apply, up to the first await
applyFields(st, p) ==
    [st EXCEPT !.locked = TRUE,
               !.page = applyPage(st, p),
               !.limit = applyLimit(st, p),
               !.search = applySearch(st, p),
               !.sorts = applySorts(st, p),
               !.filters = applyFilters(st, p)]

FieldNames == {"page", "limit", "search", "sorts", "filters"}

ChangedFields(old, new) == {f \in FieldNames : old[f] # new[f]}

\* an apply that persists the limit only
persistLimitOnly(store, st, storables) ==
    IF isValidOption(kLimit, storables) /\ st.limit > 0
    THEN storageSet(store, "limit", NumberToString(st.limit))
    ELSE store

\* lines 164-175: what apply persists after the callback
persist(store, st, storables) ==
    LET limitValue == positiveSafe(Num(st.limit), Num(0)).v
        sortsValue == arraySafe(Arr(st.sorts), Arr(<<>>)).v
        s1 == IF isValidOption(kLimit, storables) /\ limitValue > 0
              THEN storageSet(store, "limit", NumberToString(limitValue))
              ELSE store
    IN IF isValidOption(kSorts, storables) /\ Len(sortsValue) > 0
       THEN storageSet(s1, "sorts", encodeSorts(sortsValue))
       ELSE s1

WrittenKeys(st, storables) ==
    {k \in {"limit", "sorts"} :
        \/ k = "limit" /\ isValidOption(kLimit, storables) /\ st.limit > 0
        \/ k = "sorts" /\ isValidOption(kSorts, storables) /\ Len(st.sorts) > 0}

MaxLog == 3

\* a call of apply(p): while the lock is held line 139 returns, otherwise
\* the lock is taken, the fields are assigned, params is built and the body
\* suspends in signer.validate
ApplyCall(p) ==
    IF isLocked(stats)
    THEN /\ event' = "dropped"
         /\ UNCHANGED << stats, options, storage, pc, params, active, arg,
                         changed, cbCount, cbArgs, wrote, logging, cbLog >>
         /\ UNCHANGED outside
    ELSE /\ logging => Len(cbLog) < MaxLog
         /\ UNCHANGED outside
         /\ stats' = applyFields(stats, p)
         /\ params' = Projection(stats')
         /\ pc' = "validate"
         /\ active' = active + 1
         /\ event' = "apply"
         /\ arg' = p
         /\ changed' = ChangedFields(stats, stats')
         /\ cbCount' = 0
         /\ cbArgs' = Undefined
         /\ wrote' = {}
         /\ UNCHANGED << options, storage, logging, cbLog >>

\* apply(p) called while the lock is held, whatever p
ApplyDropped ==
    /\ isLocked(stats)
    /\ ApplyCall(NoPartial)
    /\ UNCHANGED response

\* apply(p) called while the lock is free
Apply(p) ==
    /\ ~isLocked(stats)
    /\ ApplyCall(p)
    /\ UNCHANGED response

\* parseURL(encoded)
ParseURL(encoded) ==
    /\ ApplyCall(decode(encoded))
    /\ UNCHANGED response

\* parseResponse(r)
ParseResponse(r) ==
    /\ response' = parseMerge(response, r)
    /\ ApplyCall(parseResult(response', r))

\* signer.validate(params, stats.sign) resolves
ValidateResolved ==
    /\ pc = "validate"
    /\ IF validate(params, stats.sign)
       THEN /\ stats' = [stats EXCEPT !.locked = FALSE]
            /\ pc' = "idle"
            /\ params' = Undefined
            /\ active' = active - 1
            /\ arg' = NoPartial
            /\ event' = "same"
       ELSE /\ pc' = "sign"
            /\ event' = "changed"
            /\ UNCHANGED << stats, params, active, arg >>
    /\ UNCHANGED << options, storage, response, changed, cbCount, cbArgs,
                    wrote, logging, cbLog >>
    /\ UNCHANGED outside

\* signer.sign(params) resolves: the signature is stored, the callback is
\* invoked, limit and sorts are persisted and the lock is released
SignResolved ==
    /\ pc = "sign"
    /\ stats' = [stats EXCEPT !.sign = sign(params), !.locked = FALSE]
    /\ cbCount' = IF stats.callback THEN cbCount + 1 ELSE cbCount
    /\ cbArgs' = IF stats.callback THEN params ELSE cbArgs
    /\ cbLog' = IF stats.callback /\ logging
                THEN Append(cbLog, sign(params)) ELSE cbLog
    /\ storage' = persist(storage, stats, options.storables)
    /\ wrote' = WrittenKeys(stats, options.storables)
    /\ pc' = "idle"
    /\ params' = Undefined
    /\ active' = active - 1
    /\ arg' = NoPartial
    /\ event' = "notified"
    /\ UNCHANGED << options, response, changed, logging >>
    /\ UNCHANGED outside

\* onApply(callback)
OnApply ==
    /\ ~stats.callback
    /\ stats' = [stats EXCEPT !.callback = TRUE]
    /\ event' = "onApply"
    /\ UNCHANGED << options, storage, response, pc, params, active, arg,
                    changed, cbCount, cbArgs, wrote, logging, cbLog >>
    /\ UNCHANGED outside

\* ------------------------------------------------------------------------
\* Inputs
\* ------------------------------------------------------------------------
MaxPage == 2

fA == <<"a">>
fB == <<"b">>
Sab == << Sort(fA, asc), Sort(fB, desc) >>
Sba == << Sort(fB, desc), Sort(fA, asc) >>
sX == <<"x">>
Fd == << Entry(<<"d">>, Num(1)) >>
Fzero == << Entry(<<"c">>, Arr(<<>>)), Entry(<<"d">>, Num(1)),
            Entry(<<"e">>, Obj(<<>>)) >>

PageInputs == {Undefined, NaN, Num(-1)} \cup {Num(n) : n \in 0..MaxPage}

LimitInputs == {Undefined, Num(0), Num(10)}

SearchInputs == {Undefined, Str(<<>>), Str(sX)}

SortsInputs == {Undefined, Arr(<<>>), Arr(Sab), Arr(Sba)}

FiltersInputs == {Undefined, Obj(<<>>), Obj(Fzero)}

\* partials with one field present
SingleField ==
    {[NoPartial EXCEPT !.page = v] : v \in PageInputs}
    \cup {[NoPartial EXCEPT !.limit = v] : v \in LimitInputs}
    \cup {[NoPartial EXCEPT !.search = v] : v \in SearchInputs}
    \cup {[NoPartial EXCEPT !.sorts = v] : v \in SortsInputs}
    \cup {[NoPartial EXCEPT !.filters = v] : v \in FiltersInputs}

\* a partial every field of which apply accepts, and one it accepts none of
AllAccepted ==
    [page |-> Num(2), limit |-> Num(10), search |-> Str(sX),
     sorts |-> Arr(Sab), filters |-> Obj(Fzero)]

NoneAccepted ==
    [page |-> Num(0), limit |-> NaN, search |-> Str(<<>>),
     sorts |-> Null, filters |-> Null]

\* the partials apply is called with
Partials == SingleField \cup {AllAccepted, NoneAccepted}

\* "page=2", "page=1&sorts=b:desc,a:asc&d=1" and "sorts=a:up"
Queries ==
    { <<"p", "a", "g", "e", "=", "2">>,
      <<"p", "a", "g", "e", "=", "1", "&">> \o kSorts \o <<"=">>
          \o encodeSorts(Sba) \o <<"&", "d", "=", "1">>,
      kSorts \o <<"=", "a", ":", "u", "p">> }

kTotal == <<"t", "o", "t", "a", "l">>

\* a non-object response, and responses echoing some of the filter state
Responses ==
    { Null,
      Obj(<<Entry(kPage, Num(2)), Entry(kTotal, Num(5))>>),
      Obj(<<Entry(kSorts, Arr(Sab)), Entry(kPage, Num(1))>>) }

\* partials of the runs in which the callback invocations are logged
LogPartials ==
    {[NoPartial EXCEPT !.page = Num(n)] : n \in 1..MaxPage}
    \cup {[NoPartial EXCEPT !.sorts = v] : v \in {Arr(Sab), Arr(Sba)}}

StorablesInputs == {Undefined, Str(all), Arr(<<Str(kLimit)>>)}

DefaultsInputs ==
    { Undefined,
      Obj(<<Entry(kPage, Num(0)), Entry(kLimit, Num(-1))>>),
      Obj(<<Entry(kLimit, Num(10)), Entry(kSorts, Arr(Sba))>>),
      Obj(<<Entry(kSearch, Str(sX)), Entry(kFilters, Obj(Fzero))>>) }

NoStorage == [limit |-> Undefined, sorts |-> Undefined]

StorageInputs ==
    { NoStorage,
      [limit |-> Str(<<"1", "0">>), sorts |-> Str(encodeSorts(Sab))],
      [limit |-> Str(<<"0">>), sorts |-> Str(<<"a", ":", "u", "p">>)] }

\* ------------------------------------------------------------------------
\* Specification
\* ------------------------------------------------------------------------
\* the state right after useFilter(storagePrefix, {storables, defaults})
Constructed(storables, defaults, store, log) ==
    /\ stats = initialStats(storables, defaults, store)
    /\ options = mergedOptions(storables)
    /\ storage = store
    /\ response = <<>>
    /\ pc = "idle"
    /\ params = Undefined
    /\ active = 0
    /\ event = "construct"
    /\ arg = NoPartial
    /\ changed = {}
    /\ cbCount = 0
    /\ cbArgs = Undefined
    /\ wrote = {}
    /\ logging = log
    /\ cbLog = <<>>
    /\ NoCall
    /\ CountdownCreated
    /\ TimerCreated
    /\ MaskCreated

\* a new instance over the same storage, once no apply is in progress
Construct(storables, defaults) ==
    /\ pc = "idle"
    /\ stats' = initialStats(storables, defaults, storage)
    /\ options' = mergedOptions(storables)
    /\ event' = "construct"
    /\ arg' = NoPartial
    /\ changed' = {}
    /\ cbCount' = 0
    /\ cbArgs' = Undefined
    /\ wrote' = {}
    /\ cbLog' = <<>>
    /\ response' = <<>>
    /\ UNCHANGED << storage, pc, params, active, logging >>
    /\ UNCHANGED outside

Init ==
    \E storables \in StorablesInputs, defaults \in DefaultsInputs,
       store \in StorageInputs :
        Constructed(storables, defaults, store, FALSE)

Next ==
    \/ \E storables \in StorablesInputs, defaults \in DefaultsInputs :
          Construct(storables, defaults)
    \/ OnApply
    \/ \E p \in Partials : Apply(p)
    \/ ApplyDropped
    \/ ValidateResolved
    \/ SignResolved

Spec == Init /\ [][Next]_vars

\* one instance whose callback invocations are logged, driven through apply,
\* parseURL and parseResponse
InitLog == Constructed(Str(all), Undefined, NoStorage, TRUE)

NextLog ==
    \/ OnApply
    \/ \E p \in LogPartials : Apply(p)
    \/ ApplyDropped
    \/ \E q \in Queries : ParseURL(q)
    \/ \E r \in Responses : ParseResponse(r)
    \/ ValidateResolved
    \/ SignResolved

SpecLog == InitLog /\ [][NextLog]_vars

\* ------------------------------------------------------------------------
\* The helpers called directly: useEncoder, useSigner, useResponse
\* ------------------------------------------------------------------------
\* the computed values of useResponse over the response object
total(resp) == positiveSafe(Get(resp, kTotal), Undefined)

from(resp) == positiveSafe(Get(resp, <<"f", "r", "o", "m">>), Undefined)

to(resp) == positiveSafe(Get(resp, <<"t", "o">>), Undefined)

pages(resp) == positiveSafe(Get(resp, <<"p", "a", "g", "e", "s">>), Undefined)

meta(resp) == objectSafe(Get(resp, <<"m", "e", "t", "a">>), Undefined)

records(resp) == arraySafe(Get(resp, <<"d", "a", "t", "a">>), Arr(<<>>))

\* what a helper call leaves alone
HelperFrame == UNCHANGED << stats, options, storage, pc, params, active, event,
                            arg, changed, cbCount, cbArgs, wrote, logging,
                            cbLog, countdownVars, timerVars, maskVars >>

\* decode(encode(state))
EncodeDecode(state) ==
    /\ fn = "none"
    /\ fn' = "encode-decode"
    /\ input' = state
    /\ output' = decode(encode(state))
    /\ UNCHANGED response
    /\ HelperFrame

\* decode(query)
Decode(query) ==
    /\ fn = "none"
    /\ fn' = "decode"
    /\ input' = query
    /\ output' = decode(query)
    /\ UNCHANGED response
    /\ HelperFrame

\* decodeSorts(encoded)
DecodeSorts(encoded) ==
    /\ fn = "none"
    /\ fn' = "decodeSorts"
    /\ input' = encoded
    /\ output' = decodeSorts(encoded)
    /\ UNCHANGED response
    /\ HelperFrame

\* sign(data)
Sign(data) ==
    /\ fn = "none"
    /\ fn' = "sign"
    /\ input' = data
    /\ output' = sign(data)
    /\ UNCHANGED response
    /\ HelperFrame

\* validate(data, await sign(other))
Validate(data, other) ==
    /\ fn = "none"
    /\ fn' = "validate"
    /\ input' = [data |-> data, other |-> other]
    /\ output' = validate(data, sign(other))
    /\ UNCHANGED response
    /\ HelperFrame

\* the caller has taken the result of the call
Returned ==
    /\ fn # "none"
    /\ fn' = "none"
    /\ input' = Undefined
    /\ output' = Undefined
    /\ UNCHANGED response
    /\ HelperFrame

\* parse(r) of useResponse; input also records the response object the call
\* found
Parse(r) ==
    /\ fn' = "parse"
    /\ input' = [r |-> r, response |-> response]
    /\ response' = parseMerge(response, r)
    /\ output' = parseResult(response', r)
    /\ HelperFrame

\* the states encode is called with: every field empty or not, and filter
\* values of every shape
FilterValueInputs ==
    { Bool(TRUE), Null, Num(5), Str(sX),
      Arr(<<Str(sX), Str(<<"y">>)>>), Arr(<<Str(sX)>>), Arr(<<Num(1), Null>>),
      Obj(Fd),
      Obj(<<Entry(fA, Str(sX)), Entry(fB, Bool(FALSE))>>) }

FilterMapInputs ==
    {<<>>}
    \cup {<<Entry(<<"c">>, v)>> : v \in FilterValueInputs}
    \cup {<<Entry(<<"c">>, Num(5)),
            Entry(<<"d">>, Arr(<<Str(sX), Str(<<"y">>)>>))>>}

StateInputs ==
    [ page : {Num(0), Num(2)},
      limit : {Num(0), Num(10)},
      search : {Str(<<>>), Str(sX), Str(<<"a", " ", "b">>)},
      sorts : {Arr(<<>>), Arr(Sba)},
      filters : {Obj(f) : f \in FilterMapInputs} ]

\* "page=2&limit=10&sorts=name:asc,age:desc&color=red,blue",
\* "c=x&d=5&e=true", "c=a:1,b:x", "c=1,2&d=[null]", "+page=3" and
\* "page=2&search=x&limit=0"
QueryInputs ==
    { <<"p", "a", "g", "e", "=", "2",
         "&", "l", "i", "m", "i", "t", "=", "1", "0",
         "&", "s", "o", "r", "t", "s", "=", "n", "a", "m", "e", ":", "a", "s", "c", ",", "a", "g", "e", ":", "d", "e", "s", "c",
         "&", "c", "o", "l", "o", "r", "=", "r", "e", "d", ",", "b", "l", "u", "e">>,
      <<"c", "=", "x",
         "&", "d", "=", "5",
         "&", "e", "=", "t", "r", "u", "e">>,
      <<"c", "=", "a", ":", "1", ",", "b", ":", "x">>,
      <<"c", "=", "1", ",", "2",
         "&", "d", "=", "[", "n", "u", "l", "l", "]">>,
      <<"+", "p", "a", "g", "e", "=", "3">>,
      <<"p", "a", "g", "e", "=", "2",
         "&", "s", "e", "a", "r", "c", "h", "=", "x",
         "&", "l", "i", "m", "i", "t", "=", "0">> }

\* the items a sorts string is made of
SortItemInputs ==
    { <<"a", ":", "a", "s", "c">>,
      <<"b", ":", "d", "e", "s", "c">>,
      <<"a", ":", "u", "p">>,
      <<"a">>,
      <<":", "a", "s", "c">>,
      <<>>,
      <<" ", "a", " ", ":", "d", "e", "s", "c">>,
      <<"a", ":">>,
      <<"a", ":", "a", "s", "c", ":", "x">>,
      <<" ", ":", "a", "s", "c">>,
      <<"%", "2", "0", "a", ":", "a", "s", "c">> }

MaxSortItems == 2

\* the strings decodeSorts is called with: up to MaxSortItems items, joined
SortsStringInputs ==
    {Join(items, <<",">>) :
        items \in UNION {[1..n -> SortItemInputs] : n \in 1..MaxSortItems}}

kU == <<"u">>
kV == <<"v">>
kX == <<"x">>
kY == <<"y">>

\* the same data built in two key orders, with the elements of c exchanged,
\* and with another value
SignInputs ==
    { Obj(<< Entry(fA, Num(1)),
             Entry(fB, Obj(<<Entry(kX, Num(1)), Entry(kY, Num(2))>>)),
             Entry(<<"c">>, Arr(<<
                 Obj(<<Entry(kU, Num(1)), Entry(kV, Num(2))>>),
                 Obj(<<Entry(kU, Num(3)), Entry(kV, Num(4))>>) >>)) >>),
      Obj(<< Entry(<<"c">>, Arr(<<
                 Obj(<<Entry(kV, Num(2)), Entry(kU, Num(1))>>),
                 Obj(<<Entry(kV, Num(4)), Entry(kU, Num(3))>>) >>)),
             Entry(fB, Obj(<<Entry(kY, Num(2)), Entry(kX, Num(1))>>)),
             Entry(fA, Num(1)) >>),
      Obj(<< Entry(fA, Num(1)),
             Entry(fB, Obj(<<Entry(kX, Num(1)), Entry(kY, Num(2))>>)),
             Entry(<<"c">>, Arr(<<
                 Obj(<<Entry(kU, Num(3)), Entry(kV, Num(4))>>),
                 Obj(<<Entry(kU, Num(1)), Entry(kV, Num(2))>>) >>)) >>),
      Obj(<< Entry(fA, Num(2)),
             Entry(fB, Obj(<<Entry(kX, Num(1)), Entry(kY, Num(2))>>)),
             Entry(<<"c">>, Arr(<<>>)) >>),
      Arr(<< Obj(<<Entry(kU, Num(1)), Entry(kV, Null)>>) >>),
      Arr(<< Obj(<<Entry(kV, Null), Entry(kU, Num(1))>>) >>) }

\* {a: "x|b:y"}, {a: "x", b: "y"}, {b: "y", a: "x"} and {a: "x"}
ValidateInputs ==
    { Obj(<<Entry(fA, Str(<<"x", "|", "b", ":", "y">>))>>),
      Obj(<<Entry(fA, Str(sX)), Entry(fB, Str(<<"y">>))>>),
      Obj(<<Entry(fB, Str(<<"y">>)), Entry(fA, Str(sX))>>),
      Obj(<<Entry(fA, Str(sX))>>) }

\* the responses parse is called with
ParseInputs ==
    Responses
    \cup { Str(sX), Num(5),
           Obj(<<Entry(kLimit, Num(10)), Entry(kSearch, Str(sX))>>),
           Obj(<<Entry(kFilters, Obj(Fd)),
                 Entry(<<"d", "a", "t", "a">>, Arr(<<Num(1)>>))>>),
           Obj(<<Entry(kPage, Num(0)), Entry(kFilters, Obj(<<>>))>>) }

InitHelpers == Constructed(Str(all), Undefined, NoStorage, FALSE)

NextHelpers ==
    \/ \E state \in StateInputs : EncodeDecode(state)
    \/ \E query \in QueryInputs : Decode(query)
    \/ \E encoded \in SortsStringInputs : DecodeSorts(encoded)
    \/ \E data \in SignInputs : Sign(data)
    \/ \E data \in ValidateInputs, other \in ValidateInputs :
          Validate(data, other)
    \/ Returned

SpecHelpers == InitHelpers /\ [][NextHelpers]_vars

\* the response parser alone, over any sequence of responses
NextResponse == \E r \in ParseInputs : Parse(r)

SpecResponse == InitHelpers /\ [][NextResponse]_vars

\* ------------------------------------------------------------------------
\* useFilter: apply with a failing digest and with a callback that calls
\* back into the instance or throws
\* ------------------------------------------------------------------------
\* a finally that leaves the lock held
releaseNever(st) == st

\* lines 177-179: the finally of apply
release(st) == [st EXCEPT !.locked = FALSE]

\* the body of apply is left by an exception: the finally runs and the
\* promise apply returned rejects
Rejected(how) ==
    /\ stats' = release(stats)
    /\ pc' = "idle"
    /\ params' = Undefined
    /\ active' = active - 1
    /\ arg' = NoPartial
    /\ event' = how
    /\ UNCHANGED << options, storage, response, changed, cbCount, cbArgs,
                    wrote, logging, cbLog >>
    /\ UNCHANGED outside

\* crypto.subtle.digest rejects inside signer.validate (line 160)
ValidateRejected ==
    /\ pc = "validate"
    /\ Rejected("rejected")

\* crypto.subtle.digest rejects inside signer.sign (line 162)
SignRejected ==
    /\ pc = "sign"
    /\ Rejected("rejected")

\* signer.sign(params) resolves and the registered callback is entered
\* (lines 162-163)
CallbackEntered ==
    /\ pc = "sign"
    /\ stats.callback
    /\ stats' = [stats EXCEPT !.sign = sign(params)]
    /\ cbCount' = cbCount + 1
    /\ cbArgs' = params
    /\ cbLog' = IF logging THEN Append(cbLog, sign(params)) ELSE cbLog
    /\ pc' = "callback"
    /\ event' = "callback"
    /\ UNCHANGED << options, storage, response, params, active, arg, changed,
                    wrote, logging >>
    /\ UNCHANGED outside

\* the callback calls apply(p), parseURL(encoded) or parseResponse(r)
CallbackApply(p) ==
    /\ pc = "callback"
    /\ ApplyCall(p)
    /\ UNCHANGED response

CallbackParseURL(encoded) ==
    /\ pc = "callback"
    /\ ParseURL(encoded)

CallbackParseResponse(r) ==
    /\ pc = "callback"
    /\ ParseResponse(r)

\* the callback returns: limit and sorts are persisted and the lock is
\* released (lines 164-179)
CallbackReturned ==
    /\ pc = "callback"
    /\ stats' = release(stats)
    /\ storage' = persist(storage, stats, options.storables)
    /\ wrote' = WrittenKeys(stats, options.storables)
    /\ pc' = "idle"
    /\ params' = Undefined
    /\ active' = active - 1
    /\ arg' = NoPartial
    /\ event' = "notified"
    /\ UNCHANGED << options, response, changed, cbCount, cbArgs, logging,
                    cbLog >>
    /\ UNCHANGED outside

\* the callback throws (line 163)
CallbackThrown ==
    /\ pc = "callback"
    /\ Rejected("thrown")

\* the partials of these runs
StepPartials ==
    {[NoPartial EXCEPT !.page = Num(n)] : n \in 1..MaxPage}
    \cup {[NoPartial EXCEPT !.sorts = Arr(Sab)], AllAccepted}

InitSteps ==
    \E storables \in {Str(all), Arr(<<Str(kLimit)>>)} :
        Constructed(storables, Undefined, NoStorage, FALSE)

NextSteps ==
    \/ OnApply
    \/ \E p \in StepPartials : Apply(p)
    \/ ValidateResolved
    \/ ValidateRejected
    \/ SignResolved
    \/ SignRejected
    \/ CallbackEntered
    \/ \E p \in StepPartials : CallbackApply(p)
    \/ \E q \in Queries : CallbackParseURL(q)
    \/ \E r \in Responses : CallbackParseResponse(r)
    \/ CallbackReturned
    \/ CallbackThrown

SpecSteps == InitSteps /\ [][NextSteps]_vars

\* ------------------------------------------------------------------------
\* useCountdown (src/unnamed/part_001)
\* ------------------------------------------------------------------------
MaxTimers == 3

\* toHMS(duration, "seconds") of a whole number of seconds
toHMS(duration) ==
    [ hours |-> duration \div 3600,
      minutes |-> (duration % 3600) \div 60,
      seconds |-> duration % 60 ]

\* the id setInterval returns: one that no interval still set has
NewTimer(set) ==
    CHOOSE id \in 1..(Cardinality(set) + 1) :
        id \notin set /\ \A j \in 1..(id - 1) : j \in set

\* the intervals still set after pauseTimer()
afterPause(set, held) == IF held # 0 THEN set \ {held} ELSE set

\* what the filter and the helpers hold while the countdown runs
CountdownFrame == UNCHANGED << filterVars, helperVars, timerVars, maskVars >>

\* startTimer(duration), in seconds
CountdownStartTimer(duration) ==
    IF ~isNumber(duration) \/ duration.v <= 0
    THEN UNCHANGED vars
    ELSE /\ Cardinality(afterPause(timers, interval)) < MaxTimers
         /\ hours' = toHMS(duration.v).hours
         /\ minutes' = toHMS(duration.v).minutes
         /\ seconds' = toHMS(duration.v).seconds
         /\ interval' = NewTimer(afterPause(timers, interval))
         /\ timers' = afterPause(timers, interval) \cup {interval'}
         /\ paused' = FALSE
         /\ started' = TRUE
         /\ CountdownFrame

\* resumeTimer()
CountdownResumeTimer ==
    /\ IF hours > 0 \/ minutes > 0 \/ seconds > 0
       THEN /\ Cardinality(timers) < MaxTimers
            /\ interval' = NewTimer(timers)
            /\ timers' = timers \cup {interval'}
       ELSE UNCHANGED << interval, timers >>
    /\ paused' = FALSE
    /\ started' = FALSE
    /\ UNCHANGED << hours, minutes, seconds >>
    /\ CountdownFrame

\* pauseTimer()
CountdownPauseTimer ==
    /\ timers' = afterPause(timers, interval)
    /\ interval' = 0
    /\ paused' = TRUE
    /\ started' = FALSE
    /\ UNCHANGED << hours, minutes, seconds >>
    /\ CountdownFrame

\* stopTimer()
CountdownStopTimer ==
    /\ timers' = afterPause(timers, interval)
    /\ interval' = 0
    /\ hours' = 0
    /\ minutes' = 0
    /\ seconds' = 0
    /\ paused' = FALSE
    /\ started' = FALSE
    /\ CountdownFrame

\* hours, minutes and seconds after the decrement of one tick
ticked(hh, mm, ss) ==
    IF ss - 1 >= 0 THEN [hours |-> hh, minutes |-> mm, seconds |-> ss - 1]
    ELSE IF mm - 1 >= 0 THEN [hours |-> hh, minutes |-> mm - 1, seconds |-> 59]
    ELSE [hours |-> hh - 1, minutes |-> 59, seconds |-> 59]

\* the callback of the interval id fires
CountdownTick(id) ==
    /\ id \in timers
    /\ LET now == ticked(hours, minutes, seconds)
       IN IF now.hours <= 0 /\ now.minutes <= 0 /\ now.seconds <= 0
          THEN /\ timers' = afterPause(timers, interval)
               /\ interval' = 0
               /\ hours' = 0
               /\ minutes' = 0
               /\ seconds' = 0
          ELSE /\ hours' = now.hours
               /\ minutes' = now.minutes
               /\ seconds' = now.seconds
               /\ UNCHANGED << interval, timers >>
    /\ UNCHANGED << paused, started >>
    /\ CountdownFrame

\* the computed timer (lines 23-36), as its characters
timer ==
    LET pad(n) == IF Len(NumberToString(n)) < 2
                  THEN <<"0">> \o NumberToString(n) ELSE NumberToString(n)
        max0(n) == IF n > 0 THEN n ELSE 0
        parts == pad(max0(minutes)) \o <<":">> \o pad(max0(seconds))
    IN IF hours <= 0 /\ minutes <= 0 /\ seconds <= 0
       THEN <<"0", "0", ":", "0", "0">>
       ELSE IF hours > 0 THEN pad(hours) \o <<":">> \o parts ELSE parts

\* the computed isTimerRunning (lines 41-43)
isTimerRunning ==
    interval # 0 /\ (hours > 0 \/ minutes > 0 \/ seconds > 0)

\* durations startTimer is called with: rejected ones, and 1 s, 2 s, 61 s
DurationInputs == {NaN, Num(-1), Num(0), Num(1), Num(2), Num(61)}

InitCountdown == Constructed(Str(all), Undefined, NoStorage, FALSE)

NextCountdown ==
    \/ \E duration \in DurationInputs : CountdownStartTimer(duration)
    \/ CountdownResumeTimer
    \/ CountdownPauseTimer
    \/ CountdownStopTimer
    \/ \E id \in 1..MaxTimers : CountdownTick(id)

SpecCountdown == InitCountdown /\ [][NextCountdown]_vars

\* ------------------------------------------------------------------------
\* useTimer (src/src/useTimer.ts)
\* ------------------------------------------------------------------------
Infinity == [t |-> "Infinity"]

NegInfinity == [t |-> "-Infinity"]

ClockStep == 500

MaxNow == 4000

\* what the filter, the helpers, the countdown and the mask hold meanwhile
TimerFrame ==
    UNCHANGED << filterVars, helperVars, countdownVars, maskVars >>

\* the refs and the two local variables of useTimer as one record
TimerState ==
    [ hours |-> timerHours, minutes |-> timerMinutes,
      seconds |-> timerSeconds, interval |-> timerInterval,
      endTime |-> endTime, intervals |-> intervals ]

TimerBecomes(t) ==
    /\ timerHours' = t.hours
    /\ timerMinutes' = t.minutes
    /\ timerSeconds' = t.seconds
    /\ timerInterval' = t.interval
    /\ endTime' = t.endTime
    /\ intervals' = t.intervals

\* a test that lets 0 and negative durations through
rejectedNotFinite(duration) == ~isNumber(duration)

\* line 54: !duration || !Number.isFinite(duration) || duration < 0
rejected(duration) ==
    \/ duration = NaN
    \/ isNumber(duration) /\ duration.v = 0
    \/ ~isNumber(duration)
    \/ duration.v < 0

\* stopTimer()
stopTimer(t) ==
    [ hours |-> 0, minutes |-> 0, seconds |-> 0, interval |-> 0,
      endTime |-> 0,
      intervals |-> IF t.interval # 0 THEN t.intervals \ {t.interval}
                    ELSE t.intervals ]

\* startInterval()
startInterval(t) ==
    IF t.interval # 0 THEN t
    ELSE [t EXCEPT !.interval = NewTimer(t.intervals),
                   !.intervals = t.intervals \cup {NewTimer(t.intervals)}]

\* updateRemaining() when Date.now() is clock
updateRemaining(t, clock) ==
    IF t.endTime = 0 THEN t
    ELSE LET floored == (t.endTime - clock) \div 1000
             diff == IF floored > 0 THEN floored ELSE 0
         IN IF diff <= 0 THEN stopTimer(t)
            ELSE [t EXCEPT !.hours = diff \div 3600,
                           !.minutes = (diff % 3600) \div 60,
                           !.seconds = diff % 60]

\* startTimer(duration, unit) past the test of line 54
startTimer(t, clock, duration, unit) ==
    LET durationMs == IF unit = "seconds" THEN duration * 1000 ELSE duration
        stopped == stopTimer(t)
    IN startInterval(updateRemaining(
           [stopped EXCEPT !.endTime = clock + durationMs], clock))

\* a call of startTimer(duration, unit)
TimerStartTimer(duration, unit) ==
    /\ timerCall' = "startTimer"
    /\ timerArg' = [duration |-> duration, unit |-> unit]
    /\ IF rejected(duration)
       THEN UNCHANGED << timerHours, timerMinutes, timerSeconds,
                         timerInterval, endTime, intervals >>
       ELSE TimerBecomes(startTimer(TimerState, dateNow, duration.v, unit))
    /\ UNCHANGED dateNow
    /\ TimerFrame

\* a call of stopTimer()
TimerStopTimer ==
    /\ timerCall' = "stopTimer"
    /\ TimerBecomes(stopTimer(TimerState))
    /\ UNCHANGED << dateNow, timerArg >>
    /\ TimerFrame

\* the callback of the interval id fires
TimerTick(id) ==
    /\ id \in intervals
    /\ timerCall' = "tick"
    /\ TimerBecomes(updateRemaining(TimerState, dateNow))
    /\ UNCHANGED << dateNow, timerArg >>
    /\ TimerFrame

\* half a second passes
TimerClock ==
    /\ dateNow < MaxNow
    /\ dateNow' = dateNow + ClockStep
    /\ timerCall' = "clock"
    /\ UNCHANGED << timerHours, timerMinutes, timerSeconds, timerInterval,
                    endTime, intervals, timerArg >>
    /\ TimerFrame

\* rejected durations, 1 s and 2 s, half a second and 1.5 s in ms
TimerDurations ==
    { [duration |-> d, unit |-> "seconds"] :
          d \in {NaN, Infinity, NegInfinity, Num(-1), Num(0), Num(1), Num(2)} }
    \cup { [duration |-> d, unit |-> "milliseconds"] :
              d \in {Num(0), Num(500), Num(1500)} }

InitTimer == Constructed(Str(all), Undefined, NoStorage, FALSE)

NextTimer ==
    \/ \E a \in TimerDurations : TimerStartTimer(a.duration, a.unit)
    \/ TimerStopTimer
    \/ \E id \in 1..MaxTimers : TimerTick(id)
    \/ TimerClock

SpecTimer == InitTimer /\ [][NextTimer]_vars

\* ------------------------------------------------------------------------
\* useInputMask (src/unnamed/part_000)
\* ------------------------------------------------------------------------
\* what the filter, the helpers, the countdown and the timer hold meanwhile
MaskFrame ==
    UNCHANGED << filterVars, helperVars, countdownVars, timerVars >>

\* the local variable instance and the Maskito instances as one record
MaskState ==
    [ instance |-> instance, maskitos |-> maskitos, destroys |-> destroys,
      created |-> created ]

MaskBecomes(ms) ==
    /\ instance' = ms.instance
    /\ maskitos' = ms.maskitos
    /\ destroys' = ms.destroys
    /\ created' = ms.created

\* attachToInput(input, option): a new Maskito instance, whose handle is
\* returned
attachToInput(ms) ==
    [ms EXCEPT !.instance = ms.created + 1,
               !.maskitos = ms.maskitos \cup {ms.created + 1},
               !.created = ms.created + 1]

\* attach(opt), ref being inputRef.value
attach(ms, ref) == IF ref # 0 THEN attachToInput(ms) ELSE ms

\* destroy()
destroy(ms) ==
    IF ms.instance # 0
    THEN [ms EXCEPT !.instance = 0,
                    !.maskitos = ms.maskitos \ {ms.instance},
                    !.destroys[ms.instance] = ms.destroys[ms.instance] + 1]
    ELSE ms

\* update(opt)
update(ms, ref) == attach(destroy(ms), ref)

\* the element is rendered and the template ref is set, which happens
\* before the mounted hooks run
MaskRefSet ==
    /\ phase \in {"setup", "mounted"}
    /\ inputRef = 0
    /\ inputRef' = 1
    /\ UNCHANGED << instance, maskitos, destroys, created, phase >>
    /\ MaskFrame

\* the element is removed while the component stays mounted
MaskRefCleared ==
    /\ phase = "mounted"
    /\ inputRef = 1
    /\ inputRef' = 0
    /\ UNCHANGED << instance, maskitos, destroys, created, phase >>
    /\ MaskFrame

\* the hook registered with onMounted runs
MaskMounted ==
    /\ phase = "setup"
    /\ inputRef # 0 => created < MaxInstances
    /\ phase' = "mounted"
    /\ MaskBecomes(attach(MaskState, inputRef))
    /\ UNCHANGED inputRef
    /\ MaskFrame

\* a call of update(opt) of the handle
MaskUpdate ==
    /\ inputRef # 0 => created < MaxInstances
    /\ MaskBecomes(update(MaskState, inputRef))
    /\ UNCHANGED << inputRef, phase >>
    /\ MaskFrame

\* a call of destroy() of the handle
MaskDestroy ==
    /\ MaskBecomes(destroy(MaskState))
    /\ UNCHANGED << inputRef, phase >>
    /\ MaskFrame

\* the component is unmounted: the template ref is unset and the hook
\* registered with onUnmounted runs
MaskUnmounted ==
    /\ phase = "mounted"
    /\ phase' = "unmounted"
    /\ inputRef' = 0
    /\ MaskBecomes(destroy(MaskState))
    /\ MaskFrame

InitMask == Constructed(Str(all), Undefined, NoStorage, FALSE)

NextMask ==
    \/ MaskRefSet
    \/ MaskRefCleared
    \/ MaskMounted
    \/ MaskUpdate
    \/ MaskDestroy
    \/ MaskUnmounted

SpecMask == InitMask /\ [][NextMask]_vars

\* ------------------------------------------------------------------------
\* Claims
\* ------------------------------------------------------------------------
Fields(st) == <<st.page, st.limit, st.search, st.sorts, st.filters>>

IsPositiveNumber(v) == v.t = "number" /\ v.v > 0

Completed == pc = "idle" /\ event \in {"same", "notified"}

\* the step is a call of apply that was not dropped
CallStep == pc = "idle" /\ pc' = "validate"

\* C1: while an apply is in progress (suspended in the signer, lock held) a
\* further call of apply is dropped: it changes no field, signature, storage
\* entry or callback record and starts no second body; no step changes the
\* fields until the body in progress completes, so when it completes the page
\* is the one of the call that was not dropped.
C1_OverlappingApplyDropped ==
    [][ pc # "idle" =>
          /\ Fields(stats') = Fields(stats)
          /\ active' <= 1
          /\ event' = "dropped" =>
                /\ stats' = stats /\ storage' = storage
                /\ pc' = pc /\ params' = params /\ arg' = arg
                /\ cbCount' = cbCount /\ cbArgs' = cbArgs /\ wrote' = wrote
          /\ (pc' = "idle" /\ IsPositiveNumber(arg.page)) =>
                stats'.page = arg.page.v ]_vars

\* C1 witness: a call was dropped while apply({page: 2}) was in progress.
C1_Witness ==
    /\ pc # "idle" /\ event = "dropped" /\ stats.locked
    /\ arg.page = Num(2) /\ stats.page = 2

\* C2: an apply whose params have the stored signature completes without a
\* callback invocation, without a storage write and without touching the
\* signature; and apply({}) right after a completed apply is such an apply.
C2_SameSignatureNoCallback ==
    [][ /\ (pc = "validate" /\ sign(Projection(stats)) = stats.sign) =>
              /\ pc' \in {"validate", "idle"}
              /\ cbCount' = 0 /\ cbArgs' = Undefined /\ wrote' = {}
              /\ storage' = storage /\ stats'.sign = stats.sign
        /\ (Completed /\ CallStep /\ arg' = NoPartial) =>
              sign(Projection(stats')) = stats'.sign ]_vars

\* C2 witness: with a callback registered, an apply that changed nothing has
\* completed without invoking it.
C2_Witness ==
    /\ Completed /\ event = "same" /\ stats.callback
    /\ changed = {} /\ cbCount = 0 /\ wrote = {}

\* C3 (as claimed): a completed apply that left a field different from its
\* value before the call has stored a new signature and invoked the
\* registered callback exactly once with the new params.
C3_EveryChangeNotified ==
    (Completed /\ changed # {}) =>
        /\ event = "notified"
        /\ stats.callback => (cbCount = 1 /\ cbArgs = Projection(stats))

\* C4 (as claimed): a call of apply whose partial carries no non-empty sorts
\* array leaves the sorts list as it was.
C4_EmptySortsKeepsSorts ==
    [][ (CallStep /\ ~(isArray(arg'.sorts) /\ Len(arg'.sorts.v) > 0)) =>
            stats'.sorts = stats.sorts ]_vars

\* C5: a call of apply sets page (limit) to the partial's value when that is
\* a number > 0 and keeps it otherwise, and sets search to the partial's
\* value when that is a non-empty string and keeps it otherwise.
C5_FieldsReplacedOrKept ==
    [][ CallStep =>
          /\ stats'.page = IF IsPositiveNumber(arg'.page) THEN arg'.page.v
                           ELSE stats.page
          /\ stats'.limit = IF IsPositiveNumber(arg'.limit) THEN arg'.limit.v
                            ELSE stats.limit
          /\ stats'.search =
                IF arg'.search.t = "string" /\ Len(arg'.search.v) > 0
                THEN arg'.search.v ELSE stats.search ]_vars

\* C5 witness: apply({page: 0, limit: NaN, search: ""}) was called on a
\* state with a non-empty search and left page, limit and search as they were.
C5_Witness ==
    /\ pc = "validate" /\ event = "apply"
    /\ arg.page = Num(0) /\ arg.limit = NaN /\ arg.search = Str(<<>>)
    /\ stats.search = sX /\ changed = {}

\* C6 (as claimed): an instance constructed with limit and sorts passed as
\* storables, right after an earlier instance persisted its limit and its
\* non-empty sorts in a callback-firing apply, starts with that limit and
\* those sorts.
C6_PersistedRestored ==
    [][ ( /\ event = "notified" /\ cbCount = 1
          /\ wrote = {"limit", "sorts"}
          /\ event' = "construct"
          /\ isValidOption(kLimit, options'.passed)
          /\ isValidOption(kSorts, options'.passed) ) =>
            (stats'.limit = stats.limit /\ stats'.sorts = stats.sorts) ]_vars

StorablesEnabled ==
    isValidOption(kLimit, options.storables)
    /\ isValidOption(kSorts, options.storables)

C8_NoSignatureTwice ==
    \A i, j \in 1..Len(cbLog) : i # j => cbLog[i] # cbLog[j]

\* C8 (amended): no two consecutive callback invocations of one instance
\* receive params with the same signature.
C8_NoSignatureTwiceInARow ==
    \A i \in 1..(Len(cbLog) - 1) : cbLog[i] # cbLog[i + 1]

\* C8 witness: three callback invocations, the third with the signature of
\* the first.
C8_Witness ==
    /\ Len(cbLog) = 3 /\ cbLog[1] = cbLog[3] /\ cbLog[1] # cbLog[2]

\* C9 (as claimed): page > 0 and limit > 0 in every reachable state.
C9_PageAndLimitPositive == stats.page > 0 /\ stats.limit > 0

NoZeroEntry(es) == \A i \in 1..Len(es) : ~IsZero(es[i].v)

\* C10 (as claimed): neither the stored filters map nor the filters object
\* handed to the callback has an entry that is undefined, an empty array or
\* an empty object.
C10_FiltersPruned ==
    /\ NoZeroEntry(stats.filters)
    /\ cbArgs # Undefined => NoZeroEntry(Get(cbArgs.v, kFilters).v)

\* C11 (as claimed): decode(encode(s)) has the page, limit, search and sorts
\* of s (0, "" and [] where s has them), and has every filter entry of s
\* under the same key with the same shape, type and value, and no other.
C11_RoundTrip ==
    fn = "encode-decode" =>
        /\ output.page = (IF input.page.v > 0 THEN input.page ELSE Num(0))
        /\ output.limit = (IF input.limit.v > 0 THEN input.limit ELSE Num(0))
        /\ output.search = input.search
        /\ output.sorts = input.sorts
        /\ isObject(output.filters)
        /\ Len(output.filters.v) = Len(input.filters.v)
        /\ \A i \in 1..Len(input.filters.v) :
              Get(output.filters.v, input.filters.v[i].k)
                  = input.filters.v[i].v

ReservedKeys == {kPage, kLimit, kSearch, kSorts}

\* the value decode gives a non-reserved parameter, by the claim's rule
ClassifiedValue(value) ==
    IF Includes(value, ",") /\ ~Includes(value, ":")
    THEN Arr([i \in 1..Len(Split(value, ",")) |->
                 inferType(Split(value, ",")[i])])
    ELSE IF Includes(value, ":") THEN Obj(decodeObject(value))
    ELSE inferType(value)

\* decode of "page=2&limit=10&sorts=name:asc,age:desc&color=red,blue"
ExampleDecoded ==
    [ page |-> Num(2),
      limit |-> Num(10),
      search |-> Str(<<>>),
      sorts |-> Arr(<< Sort(<<"n", "a", "m", "e">>, asc),
                       Sort(<<"a", "g", "e">>, desc) >>),
      filters |-> Obj(<< Entry(<<"c", "o", "l", "o", "r">>,
                               Arr(<< Str(<<"r", "e", "d">>),
                                      Str(<<"b", "l", "u", "e">>) >>)) >>) ]

\* C12 (as claimed): decode gives every non-reserved parameter the array,
\* object or scalar its value stands for, no reserved key (page, limit,
\* search, sorts) is a key of the decoded filters map, and the example query
\* decodes to page 2, limit 10, sorts [name asc, age desc] and filters
\* {color: ["red", "blue"]}.
C12_DecodeClassifies ==
    fn = "decode" =>
        LET pairs == URLSearchParams(input)
        IN /\ \A i \in 1..Len(pairs) :
                 pairs[i].k \notin ReservedKeys =>
                     Get(output.filters.v, Trim(decodeValue(pairs[i].k)))
                         = ClassifiedValue(pairs[i].v)
           /\ \A key \in ReservedKeys : ~HasKey(output.filters.v, key)
           /\ HasKey(pairs, <<"c", "o", "l", "o", "r">>)
                 => output = ExampleDecoded

\* the field and the order token of one item of a sorts string
ItemField(item) == decodeValue(Trim(Split(item, ":")[1]))

ItemOrder(item) == decodeValue(Split(item, ":")[2])

\* the item is a pair field:order with a field and an order of asc or desc
IsSortPair(item) ==
    /\ Includes(item, ":")
    /\ ItemField(item) # <<>>
    /\ ItemOrder(item) \in {asc, desc}

\* the sorts of the items that are such pairs, in the order of the items
RECURSIVE PairsOf(_)
PairsOf(items) ==
    IF items = <<>> THEN <<>>
    ELSE (IF IsSortPair(Head(items))
          THEN <<Sort(ItemField(Head(items)), ItemOrder(Head(items)))>>
          ELSE <<>>) \o PairsOf(Tail(items))

RECURSIVE SameUpToKeyOrder(_, _)
SameUpToKeyOrder(a, b) ==
    IF isObject(a) /\ isObject(b)
    THEN /\ Len(a.v) = Len(b.v)
         /\ \A i \in 1..Len(a.v) :
               /\ HasKey(b.v, a.v[i].k)
               /\ SameUpToKeyOrder(a.v[i].v, Get(b.v, a.v[i].k))
    ELSE IF isArray(a) /\ isArray(b)
    THEN /\ Len(a.v) = Len(b.v)
         /\ \A i \in 1..Len(a.v) : SameUpToKeyOrder(a.v[i], b.v[i])
    ELSE a = b

\* C14: sign gives data built in another key insertion order, at any nesting
\* level, the signature it gives the data signed.
C14_SignIgnoresKeyOrder ==
    fn = "sign" =>
        \A other \in SignInputs :
            SameUpToKeyOrder(input, other) => sign(other) = output

\* C14 witness: data was signed of which a differently ordered build exists,
\* with the same signature.
C14_Witness ==
    /\ fn = "sign"
    /\ \E other \in SignInputs :
          /\ other # input
          /\ SameUpToKeyOrder(input, other)
          /\ sign(other) = output

\* C15 (as claimed): validate(data, sign(data)) is true, and
\* validate(data, sign(other)) is false whenever flatten(data) and
\* flatten(other) differ, the digest being injective.
C15_ValidateTellsFlattenedApart ==
    fn = "validate" =>
        /\ input.data = input.other => output
        /\ flatten(input.data, <<>>) # flatten(input.other, <<>>) => ~output

\* C16: parse(r) with r not a plain object leaves no field in the response
\* object, so total, from, to, pages and meta are undefined and records is
\* empty, and returns an empty partial.
C16_NonObjectResets ==
    (fn = "parse" /\ ~isObject(input.r)) =>
        /\ response = <<>>
        /\ total(response) = Undefined
        /\ from(response) = Undefined
        /\ to(response) = Undefined
        /\ pages(response) = Undefined
        /\ meta(response) = Undefined
        /\ records(response) = Arr(<<>>)
        /\ output = NoPartial

\* C16 witness: a string was parsed when the response object held the total
\* and the page of an earlier response.
C16_Witness ==
    /\ fn = "parse"
    /\ input.r = Str(sX)
    /\ total(input.response) = Num(5)
    /\ HasKey(input.response, kPage)
    /\ response = <<>>

\* the value parse returns for a field of the accumulated response object
Echoed(resp, key) ==
    LET val == Get(resp, key)
    IN CASE key \in {kPage, kLimit} ->
                IF isNumeric(val) /\ Number(val) > 0 THEN Num(Number(val))
                ELSE Undefined
         [] key = kSearch ->
                IF isString(val) /\ val.v # <<>> THEN val ELSE Undefined
         [] key = kSorts ->
                IF isArray(val) /\ Len(val.v) > 0 THEN val ELSE Undefined
         [] key = kFilters ->
                IF isObject(val) /\ Len(val.v) > 0 THEN val ELSE Undefined

\* C17: parse(r) with r a plain object gives the response object the fields
\* of r, keeps every other field it held, and returns the page, limit,
\* search, sorts and filters of the accumulated object that are not empty.
C17_ObjectMerges ==
    (fn = "parse" /\ isObject(input.r)) =>
        /\ \A i \in 1..Len(input.r.v) :
              Get(response, input.r.v[i].k) = Get(input.r.v, input.r.v[i].k)
        /\ \A i \in 1..Len(input.response) :
              ~HasKey(input.r.v, input.response[i].k) =>
                  Get(response, input.response[i].k) = input.response[i].v
        /\ \A i \in 1..Len(response) :
              \/ HasKey(input.r.v, response[i].k)
              \/ HasKey(input.response, response[i].k)
        /\ output = [ page |-> Echoed(response, kPage),
                      limit |-> Echoed(response, kLimit),
                      search |-> Echoed(response, kSearch),
                      sorts |-> Echoed(response, kSorts),
                      filters |-> Echoed(response, kFilters) ]

\* C17 witness: a response without page and sorts was parsed after one that
\* had them, and parse returned that page and those sorts again.
C17_Witness ==
    /\ fn = "parse"
    /\ isObject(input.r)
    /\ ~HasKey(input.r.v, kPage)
    /\ ~HasKey(input.r.v, kSorts)
    /\ Get(input.response, kPage) = Num(1)
    /\ output.page = Num(1)
    /\ output.sorts = Arr(Sab)
    /\ output.limit = Num(10)

\* C18: when the digest fails during apply, the promise of apply rejects
\* with the lock released, no callback invoked and nothing written to
\* storage by that call, and the next apply is executed, not dropped; the
\* lock is free whenever no apply body is in progress, also after the
\* callback threw.
C18_DigestFailureReleasesLock ==
    [][ /\ event' = "rejected" =>
              /\ ~stats'.locked
              /\ pc' = "idle"
              /\ cbCount' = 0
              /\ cbArgs' = Undefined
              /\ storage' = storage
              /\ wrote' = {}
        /\ (event \in {"rejected", "thrown"} /\ event' \in {"apply", "dropped"})
              => event' = "apply" /\ stats'.locked /\ pc' = "validate"
        /\ active' = 0 => ~stats'.locked
      ]_vars

\* C18 witness: an apply that changed the page is in progress right after
\* an apply whose digest failed.
C18_Witness ==
    /\ event = "apply"
    /\ changed = {"page"}
    /\ pc = "validate"
    /\ stats.sign = <<>>
    /\ stats.callback
    /\ stats.page = 1

\* C20: the callback runs with the lock held, and an apply, parseURL or
\* parseResponse it makes is dropped: the filter state, the signature and
\* the number of callback invocations stay as they are and the callback
\* goes on.
C20_CallInsideCallbackDropped ==
    [][ /\ pc' = "callback" => stats'.locked
        /\ (pc = "callback" /\ event' \in {"apply", "dropped"}) =>
              /\ event' = "dropped"
              /\ stats' = stats
              /\ cbCount' = cbCount
              /\ cbArgs' = cbArgs
              /\ pc' = "callback"
      ]_vars

\* C20 witness: a call made inside the callback was dropped, the page the
\* callback was invoked with still being the state's.
C20_Witness ==
    /\ pc = "callback"
    /\ event = "dropped"
    /\ cbCount = 1
    /\ stats.page = 2
    /\ Get(cbArgs.v, kPage) = Num(2)

\* C19 (as claimed): from the return of pauseTimer until resumeTimer,
\* startTimer or stopTimer is called, hours, minutes and seconds do not
\* change.
C19_PausedValuesKept ==
    [][(paused /\ paused') =>
          << hours', minutes', seconds' >> = << hours, minutes, seconds >>
      ]_vars

\* C21: a parseResponse(r) made while an apply is in progress (the lock is
\* held) still gives the response object the fields of r, or empties it
\* when r is no object, and only the echo is dropped: the filter fields,
\* the signature, the callback record, the storage and the body in progress
\* stay as they are, so the response can hold a page the filter state does
\* not have.
C21_ResponseUpdatedWhileLocked ==
    [][ (stats.locked /\ response' # response) =>
          /\ \E r \in Responses :
                response' = IF isObject(r) THEN Spread(response, r.v)
                            ELSE <<>>
          /\ event' = "dropped"
          /\ stats' = stats
          /\ params' = params
          /\ pc' = pc
          /\ cbCount' = cbCount
          /\ cbArgs' = cbArgs
          /\ cbLog' = cbLog
          /\ storage' = storage
      ]_vars

\* C21 witness: the first apply of the instance is still in progress with
\* page 1, and the response object holds the total and the page 2 of a
\* response parsed meanwhile.
C21_Witness ==
    /\ stats.locked
    /\ pc = "validate"
    /\ event = "dropped"
    /\ stats.sign = <<>>
    /\ stats.page = 1
    /\ total(response) = Num(5)
    /\ Get(response, kPage) = Num(2)

\* C22 (as claimed): in every reachable state of the countdown hours is at
\* least 0 and minutes and seconds are between 0 and 59.
C22_ValueRange ==
    /\ hours >= 0
    /\ minutes \in 0..59
    /\ seconds \in 0..59

\* the remaining time in seconds
Remaining == hours * 3600 + minutes * 60 + seconds

\* C23 (as claimed): after a startTimer that took effect and with no control
\* call since, every tick lowers the remaining time by exactly 1, and the
\* tick that brings it to 0 stops the countdown: no interval is left to
\* fire, the three values are 0, timer reads "00:00" and isTimerRunning is
\* false.
C23_CountdownTerminates ==
    [][ (started /\ \E id \in 1..MaxTimers : CountdownTick(id)) =>
          /\ Remaining' = Remaining - 1
          /\ Remaining' = 0 =>
                /\ interval' = 0
                /\ timers' = {}
                /\ << hours', minutes', seconds' >> = << 0, 0, 0 >>
                /\ timer' = <<"0", "0", ":", "0", "0">>
                /\ ~isTimerRunning'
      ]_vars

\* C24 (as claimed): at most one interval of the timer is set at any time,
\* and while endTime is null no interval is set.
C24_NoIntervalWhileStopped ==
    /\ Cardinality(intervals) <= 1
    /\ endTime = 0 => intervals = {}

C26_OneInstancePerHandle ==
    /\ Cardinality(maskitos) <= 1
    /\ \A i \in 1..MaxInstances : destroys[i] <= 1
    /\ phase = "unmounted" => maskitos = {}

====
